---- MODULE Spec2Model ----
(***************************************************************************)
(* Model of afl_bench/experiments/rate_tracker.py (RateTracker and the     *)
(* aggregation_func of the "RateTracker" strategy) and of the client-info  *)
(* parsing of afl_bench/experiments/utils.py (get_cmd_line_parser).        *)
(*                                                                         *)
(* Timestamps are integer clock ticks, rates and weights are exact         *)
(* rationals <<numerator, denominator>> in lowest terms, tensors are       *)
(* one-dimensional sequences of finite rationals (shape = length), strings *)
(* are sequences of one-character strings.  A Python exception is the      *)
(* "raised" field of a result.                                             *)
(***************************************************************************)
EXTENDS Integers, Sequences, FiniteSets, TLC

VARIABLES
    num_clients,    \* rate_tracker.py:29  len(args["client_runtimes"])
    client_update,  \* RateTracker.client_update: id -> list of timestamps
    now,            \* the last value time.time() returned
    arrivals,       \* history: every timestamp recorded for an id, in order
    calls,          \* number of track_update calls so far (bounded)
    last            \* the last operation, its inputs and its outcome

vars == <<num_clients, client_update, now, arrivals, calls, last>>

\* ------------------------------------------------------------------ bounds
MaxClients == 2
MaxTime == 2
MaxCalls == 7
MaxUpdates == 4
MaxTokens == 2

\* RateTracker.__init__(self, window_size=5); rate_tracker = RateTracker()
window_size == 5

\* ------------------------------------------------------- exact arithmetic
Abs(x) == IF x < 0 THEN -x ELSE x

RECURSIVE GCD(_, _)
GCD(a, b) == IF b = 0 THEN a ELSE GCD(b, a % b)

\* a rational in lowest terms, positive denominator (d # 0)
Rat(n, d) ==
    IF d = 1 THEN <<n, 1>>
    ELSE LET g == GCD(Abs(n), Abs(d))
             s == IF d < 0 THEN -1 ELSE 1
         IN  <<(s * n) \div g, (s * d) \div g>>

Zero == <<0, 1>>
One == <<1, 1>>
RAdd(a, b) == Rat(a[1] * b[2] + b[1] * a[2], a[2] * b[2])
RSub(a, b) == Rat(a[1] * b[2] - b[1] * a[2], a[2] * b[2])
RMul(a, b) == Rat(a[1] * b[1], a[2] * b[2])
RPos(a) == a[1] > 0

\* the outcome of a Python expression: a value, or an exception
Ret(v) == [raised |-> "none", value |-> v]
Raise(e) == [raised |-> e, value |-> Zero]

\* Python's a / b
PyDiv(a, b) ==
    IF b[1] = 0 THEN Raise("ZeroDivisionError")
    ELSE Ret(Rat(a[1] * b[2], a[2] * b[1]))

\* ------------------------------------------------------------ RateTracker
\* defaultdict(list).__getitem__: a missing key reads as the empty list ...
Lookup(cu, id) == IF id \in DOMAIN cu THEN cu[id] ELSE <<>>

\* ... and is inserted by the read
Touch(cu, id) == IF id \in DOMAIN cu THEN cu ELSE cu @@ (id :> <<>>)

\* list.pop(): removes the LAST element of a non-empty list
pop(l) == SubSeq(l, 1, Len(l) - 1)

track_update_nopop(cu, client_id, t) ==
    [Touch(cu, client_id) EXCEPT ![client_id] = Append(Lookup(cu, client_id), t)]

\* RateTracker.track_update, with t the value time.time() returns
track_update(cu, client_id, t) ==
    LET w == Lookup(cu, client_id)
        kept == IF Len(w) >= window_size THEN pop(w) ELSE w
    IN  [Touch(cu, client_id) EXCEPT ![client_id] = Append(kept, t)]

\* RateTracker.get_rate (its return value; the key insertion is Touch)
get_rate(cu, client_id) ==
    LET w == Lookup(cu, client_id)
    IN  IF Len(w) < 2 THEN Ret(Zero)
        ELSE PyDiv(<<Len(w), 1>>, <<w[Len(w)] - w[1], 1>>)

RECURSIVE SumRates(_, _)
SumRates(cu, ids) ==
    IF ids = {} THEN Ret(Zero)
    ELSE LET id == CHOOSE i \in ids : \A j \in ids : i <= j
             r == get_rate(cu, id)
             rest == SumRates(cu, ids \ {id})
         IN  IF r.raised # "none" THEN r
             ELSE IF rest.raised # "none" THEN rest
             ELSE Ret(RAdd(r.value, rest.value))

\* RateTracker.get_rate_total: the sum over the keys of the dict
get_rate_total(cu) == SumRates(cu, DOMAIN cu)

\* ---------------------------------------------------------------- tensors
\* the sequence f as an explicit tuple (so that it is computed once)
Tuple(f) == f \o <<>>

\* a one-dimensional tensor of the given integers
T(ints) == Tuple([k \in 1 .. Len(ints) |-> <<ints[k], 1>>])

Shape(t) == Len(t)

\* torch broadcasting of two 1-D shapes
BroadcastOK(a, b) == Len(a) = Len(b) \/ Len(a) = 1 \/ Len(b) = 1
BroadcastLen(a, b) == IF Len(a) >= Len(b) THEN Len(a) ELSE Len(b)
El(t, k) == IF Len(t) = 1 THEN t[1] ELSE t[k]

TSub(a, b) == Tuple([k \in 1 .. BroadcastLen(a, b) |-> RSub(El(a, k), El(b, k))])
TAdd(a, b) == Tuple([k \in 1 .. BroadcastLen(a, b) |-> RAdd(El(a, k), El(b, k))])
TScale(w, t) == Tuple([k \in 1 .. Len(t) |-> RMul(w, t[k])])

RECURSIVE RSum(_)
RSum(s) == IF s = <<>> THEN Zero ELSE RAdd(Head(s), RSum(Tail(s)))

\* torch.sum(torch.stack(ts, 0), 0) of tensors of one shape
RECURSIVE StackSum(_)
StackSum(ts) ==
    IF Len(ts) = 1 THEN ts[1] ELSE TAdd(Head(ts), StackSum(Tail(ts)))

\* Python's  sub in s  on strings
Contains(sub, s) ==
    \E k \in 1 .. (Len(s) - Len(sub) + 1) : SubSeq(s, k, k + Len(sub) - 1) = sub

MinOf(S) == CHOOSE x \in S : \A y \in S : x <= y

\* ------------------------------------------------------- aggregation_func
\* a ClientUpdate is <<client_id, old_model, new_model, prev_model_version>>,
\* a model is a sequence of <<name, tensor>>
client_ids_of(client_updates) ==
    Tuple([i \in 1 .. Len(client_updates) |-> client_updates[i][1]])

\* rate_tracker.get_rate(client_id) / rate_total if rate_total > 0 else 0
rate_ratios(cu, client_ids, rate_total) ==
    Tuple([i \in 1 .. Len(client_ids) |->
        IF RPos(rate_total)
        THEN PyDiv(get_rate(cu, client_ids[i]).value, rate_total).value
        ELSE Zero])

raw_weights_nonneg(ratios, n_clients) ==
    Tuple([i \in 1 .. Len(ratios) |->
        IF ratios[i][1] >= 0 THEN Rat(1, n_clients) ELSE Zero])

\* weights = [1.0 / (num_clients) if ratio > 0 else 0 for ratio in rate_ratios]
raw_weights(ratios, n_clients) ==
    Tuple([i \in 1 .. Len(ratios) |->
        IF RPos(ratios[i]) THEN Rat(1, n_clients) ELSE Zero])

normalize_weights_identity(raw) == raw

\* weight_total = sum(weights)
\* weights = [weight / weight_total if weight_total > 0 else 0 ...]
normalize_weights(raw) ==
    LET weight_total == RSum(raw)
    IN  Tuple([i \in 1 .. Len(raw) |->
            IF RPos(weight_total) THEN PyDiv(raw[i], weight_total).value ELSE Zero])

\* for client_id in client_ids: rate_tracker.track_update(client_id)
\* times[i] is what time.time() returns in the i-th call
RECURSIVE track_all(_, _, _, _)
track_all(cu, client_ids, times, i) ==
    IF i > Len(client_ids) THEN cu
    ELSE track_all(track_update(cu, client_ids[i], times[i]), client_ids, times, i + 1)

is_bn_name_equal(param_name) == param_name = <<"b", "n">>

\* "bn" in param_name
is_bn(param_name) == Contains(<<"b", "n">>, param_name)

\* t - old_t
raw_update(t, old_t) == TSub(t, old_t)

\* one iteration of the loop over positions: <<name, tensor>> or an exception
\* (the shape tests read the shapes the tensor operations produce)
position(p, global_model, client_updates, weights) ==
    LET n == Len(client_updates)
        t(i) == client_updates[i][3][p][2]
        old_t(i) == client_updates[i][2][p][2]
        global_param_name == global_model[p][1]
        global_param == global_model[p][2]
        param_name == client_updates[1][3][p][1]
        raw_shape(i) == BroadcastLen(t(i), old_t(i))
        raw_updates == Tuple([i \in 1 .. n |-> raw_update(t(i), old_t(i))])
        weighted_updates ==
            Tuple([i \in 1 .. n |-> TScale(weights[i], raw_updates[i])])
        computed_update == StackSum(weighted_updates)
        new_param == TAdd(global_param, computed_update)
    IN  IF param_name # global_param_name THEN Raise("AssertionError")
        ELSE IF \E i \in 1 .. n : ~BroadcastOK(t(i), old_t(i))
        THEN Raise("RuntimeError")
        ELSE IF Shape(t(1)) # Shape(global_param) THEN Raise("AssertionError")
        ELSE IF \E i \in 1 .. n : raw_shape(i) # raw_shape(1)
        THEN Raise("RuntimeError")
        ELSE IF ~(Shape(global_param) = raw_shape(1) \/ Shape(global_param) = 1
                  \/ raw_shape(1) = 1)
        THEN Raise("RuntimeError")
        ELSE Ret(<<param_name, IF ~is_bn(param_name) THEN new_param ELSE global_param>>)

\* zip(zip(*new_models), zip(*old_models), global_model) stops at the shortest
zip_len(global_model, client_updates) ==
    MinOf({Len(global_model)}
          \cup {Len(client_updates[i][2]) : i \in 1 .. Len(client_updates)}
          \cup {Len(client_updates[i][3]) : i \in 1 .. Len(client_updates)})

RECURSIVE positions_from(_, _, _, _, _)
positions_from(p, stop, global_model, client_updates, weights) ==
    IF p > stop THEN Ret(<<>>)
    ELSE LET here == position(p, global_model, client_updates, weights)
         IN  IF here.raised # "none" THEN here
             ELSE LET rest == positions_from(p + 1, stop, global_model,
                                             client_updates, weights)
                  IN  IF rest.raised # "none" THEN rest
                      ELSE Ret(<<here.value>> \o rest.value)

\* for a, b in zip(global_model, new_global_model): assert names, shapes
final_check(global_model, new_global_model) ==
    \A p \in 1 .. Len(new_global_model) :
        /\ global_model[p][1] = new_global_model[p][1]
        /\ Shape(global_model[p][2]) = Shape(new_global_model[p][2])

NoWeights == [raw |-> <<>>, weights |-> <<>>, computed |-> FALSE]

\* aggregation_func((global_model, version), client_updates) on tracker state
\* cu, with times the clock values its track_update calls read.  The outcome:
\* what it raised or returned, the weights it logged, and the tracker after.
aggregation_func(global_model, client_updates, cu, n_clients, times) ==
    IF client_updates = <<>>
    THEN \* tuple(zip(*[])) = (): unpacking into four names fails
         [raised |-> "ValueError", result |-> <<>>, rate_total |-> Ret(Zero),
          w |-> NoWeights, cu |-> cu]
    ELSE LET client_ids == client_ids_of(client_updates)
             rate_total == get_rate_total(cu)
         IN  IF rate_total.raised # "none"
             THEN [raised |-> rate_total.raised, result |-> <<>>,
                   rate_total |-> rate_total, w |-> NoWeights, cu |-> cu]
             ELSE LET ratios == rate_ratios(cu, client_ids, rate_total.value)
                      raw == raw_weights(ratios, n_clients)
                      weights == normalize_weights(raw)
                      w == [raw |-> raw, weights |-> weights, computed |-> TRUE]
                      cu2 == track_all(cu, client_ids, times, 1)
                      body == positions_from(1, zip_len(global_model, client_updates),
                                             global_model, client_updates, weights)
                  IN  IF body.raised # "none"
                      THEN [raised |-> body.raised, result |-> <<>>,
                            rate_total |-> rate_total, w |-> w, cu |-> cu2]
                      ELSE IF ~final_check(global_model, body.value)
                      THEN [raised |-> "AssertionError", result |-> <<>>,
                            rate_total |-> rate_total, w |-> w, cu |-> cu2]
                      ELSE [raised |-> "none", result |-> body.value,
                            rate_total |-> rate_total, w |-> w, cu |-> cu2]

\* ------------------------------------------------------- tracker actions
ClientIds == 0 .. (num_clients - 1)

EmptyDict == [id \in {} |-> <<>>]

InitTracker ==
    /\ num_clients \in 1 .. MaxClients
    /\ client_update = EmptyDict
    /\ now = 0
    /\ arrivals = [id \in 0 .. (MaxClients - 1) |-> <<>>]
    /\ calls = 0
    /\ last = [op |-> "init"]

\* rate_tracker.track_update(client_id); time.time() returns t >= now
TrackUpdate ==
    \E id \in ClientIds, t \in now .. MaxTime :
        /\ calls < MaxCalls
        /\ client_update' = track_update(client_update, id, t)
        /\ now' = t
        /\ arrivals' = [arrivals EXCEPT ![id] = Append(@, t)]
        /\ calls' = calls + 1
        /\ last' = [op |-> "track_update", id |-> id]
        /\ UNCHANGED num_clients

\* rate_tracker.get_rate(client_id)
GetRate ==
    \E id \in ClientIds :
        /\ client_update' = Touch(client_update, id)
        /\ last' = [op |-> "get_rate", id |-> id,
                    ret |-> get_rate(client_update, id)]
        /\ UNCHANGED <<num_clients, now, arrivals, calls>>

\* rate_tracker.get_rate_total()
GetRateTotal ==
    /\ last' = [op |-> "get_rate_total", ret |-> get_rate_total(client_update)]
    /\ UNCHANGED <<num_clients, client_update, now, arrivals, calls>>

NextTracker == TrackUpdate \/ GetRate \/ GetRateTotal

SpecTracker == InitTracker /\ [][NextTracker]_vars

\* ------------------------------------------------- inputs of aggregation
NameFc == <<"f", "c", ".", "w">>
NameBn == <<"l", ".", "b", "n">>
NameB_N == <<"b", ".", "n">>

\* state_dict-like global models: parameter names distinct
GlobalModels ==
    { <<<<NameFc, T(<<2, 3>>)>>, <<NameBn, T(<<1>>)>>>>,
      <<<<NameB_N, T(<<5, 7>>)>>>> }

Shift(t, d) == Tuple([k \in 1 .. Len(t) |-> RAdd(t[k], <<d, 1>>)])
ShiftModel(m, d) == Tuple([p \in 1 .. Len(m) |-> <<m[p][1], Shift(m[p][2], d)>>])

\* how the workers' snapshots and results differ from the global model g:
\* no change at all, a change from the current g, a change from an older g
Scenarios == {"zero", "fresh", "stale"}

\* the i-th ClientUpdate of a batch: <<client_id, old_model, new_model, version>>
\* (ClientThread(..., client_id=i) for i in enumerate(client_runtimes))
UpdateOf(g, id, scenario, i) ==
    CASE scenario = "zero" -> <<id, g, g, 0>>
      [] scenario = "fresh" -> <<id, g, ShiftModel(g, i), 0>>
      [] scenario = "stale" -> <<id, ShiftModel(g, -1), ShiftModel(g, i), 0>>

BatchOf(g, ids, scenario) ==
    Tuple([i \in 1 .. Len(ids) |-> UpdateOf(g, ids[i], scenario, i)])

\* the values time.time() returns in n successive calls: between two reads
\* the clock stands still or advances by one tick
Times(n) ==
    {ts \in [1 .. n -> now .. MaxTime] :
        \A i \in 1 .. n : ts[i] - (IF i = 1 THEN now ELSE ts[i - 1]) \in {0, 1}}

RECURSIVE record_all(_, _, _, _)
record_all(arr, client_ids, times, i) ==
    IF i > Len(client_ids) THEN arr
    ELSE record_all([arr EXCEPT ![client_ids[i]] = Append(@, times[i])],
                    client_ids, times, i + 1)

\* one call of strategy.aggregate = aggregation_func by the server
Aggregate(global_model, client_updates, times) ==
    \E out \in {aggregation_func(global_model, client_updates, client_update,
                                 num_clients, times)} :
        /\ client_update' = out.cu
        /\ now' = IF out.w.computed THEN times[Len(times)] ELSE now
        /\ arrivals' = IF out.w.computed
                       THEN record_all(arrivals, client_ids_of(client_updates), times, 1)
                       ELSE arrivals
        /\ calls' = calls + Len(client_updates)
        /\ last' = [op |-> "aggregation_func", global_model |-> global_model,
                    client_updates |-> client_updates, raised |-> out.raised,
                    result |-> out.result, rate_total |-> out.rate_total,
                    w |-> out.w]
        /\ UNCHANGED num_clients

\* a round on a batch of well-formed updates (possibly none)
AggregateRound ==
    /\ last.op # "aggregation_func"
    /\ \E n \in 0 .. (MaxUpdates - calls) :
           \E ts \in Times(n), ids \in [1 .. n -> ClientIds] :
               \E g \in GlobalModels, sc \in Scenarios :
                   Aggregate(g, BatchOf(g, ids, sc), ts)

\* the call is over: its caller has the outcome and the next round can start
Return ==
    /\ last.op = "aggregation_func"
    /\ last' = [op |-> "returned"]
    /\ UNCHANGED <<num_clients, client_update, now, arrivals, calls>>

NextAgg == AggregateRound \/ Return

SpecAgg == InitTracker /\ [][NextAgg]_vars

\* ------------------------------------------- malformed aggregation inputs
\* the shapes of the 1-D tensors of malformed updates
Shapes == 1 .. 3

\* a tensor of shape len
Reshaped(len) == T([k \in 1 .. len |-> 9])

\* model m with one defect at position p
Damage(m, kind, p, len) ==
    CASE kind = "rename" -> [m EXCEPT ![p] = <<<<"x">> \o m[p][1], m[p][2]>>]
      [] kind = "reshape" -> [m EXCEPT ![p] = <<m[p][1], Reshaped(len)>>]
      [] kind = "drop" -> SubSeq(m, 1, Len(m) - 1)

\* batch b with the old (side = 2) or new (side = 3) model of update u damaged
Corrupt(b, u, side, kind, p, len) ==
    [b EXCEPT ![u] = [b[u] EXCEPT ![side] = Damage(b[u][side], kind, p, len)]]

\* the defect changes the model (and is listed once)
IsDamage(m, kind, p, len) ==
    /\ kind = "reshape" => len # Len(m[p][2])
    /\ kind # "reshape" => len = 1
    /\ kind = "drop" => p = Len(m)

\* a round on a batch in which one update's old or new model is damaged
AggregateCorrupted ==
    /\ last.op # "aggregation_func"
    /\ \E n \in 1 .. (MaxUpdates - calls) :
           \E ts \in Times(n), ids \in [1 .. n -> ClientIds] :
               \E g \in GlobalModels, u \in 1 .. n, side \in {2, 3},
                  kind \in {"rename", "reshape", "drop"}, len \in Shapes :
                 \E p \in 1 .. Len(g) :
                   /\ IsDamage(g, kind, p, len)
                   /\ Aggregate(g, Corrupt(BatchOf(g, ids, "stale"), u, side,
                                           kind, p, len), ts)

NextSanity == AggregateCorrupted \/ Return

SpecSanity == InitTracker /\ [][NextSanity]_vars

\* --------------------------------------- get_cmd_line_parser: client info
DigitChars == <<"0", "1", "2", "3", "4", "5", "6", "7", "8", "9">>
IsDigit(c) == \E d \in 1 .. 10 : DigitChars[d] = c
DigitValue(c) == (CHOOSE d \in 1 .. 10 : DigitChars[d] = c) - 1

\* str.index(c) as a 1-based position, 0 when c does not occur (ValueError)
IndexOf(str, c) ==
    IF \E k \in 1 .. Len(str) : str[k] = c
    THEN CHOOSE k \in 1 .. Len(str) : str[k] = c /\ \A j \in 1 .. (k - 1) : str[j] # c
    ELSE 0

\* str.split(sep)
RECURSIVE Split(_, _)
Split(str, sep) ==
    LET k == IndexOf(str, sep)
    IN  IF k = 0 THEN <<str>>
        ELSE <<SubSeq(str, 1, k - 1)>> \o Split(SubSeq(str, k + 1, Len(str)), sep)

\* int(digits), digits a non-empty string of decimal digits
RECURSIVE IntOf(_)
IntOf(digits) ==
    IF Len(digits) = 0 THEN 0
    ELSE 10 * IntOf(SubSeq(digits, 1, Len(digits) - 1)) + DigitValue(digits[Len(digits)])

\* where re.search(r"\[(\d+)\]", str) matches: <<start, end>> of the digits
\* of the leftmost "[digits]", or <<0, 0>> when there is no match
SearchCount(str) ==
    LET Matches(i, j) ==
            /\ str[i] = "["
            /\ str[j] = "]"
            /\ j > i + 1
            /\ \A k \in (i + 1) .. (j - 1) : IsDigit(str[k])
        starts == {i \in 1 .. Len(str) : \E j \in 1 .. Len(str) : Matches(i, j)}
    IN  IF starts = {} THEN <<0, 0>>
        ELSE LET i == MinOf(starts)
                 j == CHOOSE j \in 1 .. Len(str) : Matches(i, j)
             IN  <<i + 1, j - 1>>

RECURSIVE Pow10(_)
Pow10(n) == IF n = 0 THEN 1 ELSE 10 * Pow10(n - 1)

\* float(x) for x made of digits and "."
FloatOf(x) ==
    LET dot == IndexOf(x, ".")
        whole == IF dot = 0 THEN x ELSE SubSeq(x, 1, dot - 1)
        frac == IF dot = 0 THEN <<>> ELSE SubSeq(x, dot + 1, Len(x))
    IN  IF \/ Len(whole) + Len(frac) = 0
           \/ \E k \in 1 .. Len(whole) : ~IsDigit(whole[k])
           \/ \E k \in 1 .. Len(frac) : ~IsDigit(frac[k])
        THEN Raise("ValueError")
        ELSE Ret(Rat(IntOf(whole \o frac), Pow10(Len(frac))))

RECURSIVE FloatsOf(_)
FloatsOf(xs) ==
    IF xs = <<>> THEN [raised |-> "none", value |-> <<>>]
    ELSE LET f == FloatOf(Head(xs))
             rest == FloatsOf(Tail(xs))
         IN  IF f.raised # "none" THEN [raised |-> f.raised, value |-> <<>>]
             ELSE IF rest.raised # "none" THEN rest
             ELSE [raised |-> "none", value |-> <<f.value>> \o rest.value]

\* CLIENT_TYPE_TO_MODEL
ClientTypeToModel(c) == IF c = "i" THEN "InstantRuntime" ELSE "GaussianRuntime"

\* num_of_type = int(match.group(1)) if match else 1
num_of_type(raw_client) ==
    LET match == SearchCount(raw_client)
    IN  IF match # <<0, 0>> THEN IntOf(SubSeq(raw_client, match[1], match[2]))
        ELSE 1

\* one iteration of  for raw_client in raw_clients : the runtime models the
\* token adds, or the exception it raises
client_runtimes_of(raw_client) ==
    LET n == num_of_type(raw_client)
        bracket == IndexOf(raw_client, "[")
        client_params == FloatsOf(Split(SubSeq(raw_client, 2, bracket - 1), "/"))
    IN  IF Len(raw_client) = 0 THEN [raised |-> "IndexError", value |-> <<>>]
        ELSE IF raw_client[1] \notin {"i", "g"}
        THEN [raised |-> "KeyError", value |-> <<>>]
        ELSE IF bracket = 0 THEN [raised |-> "ValueError", value |-> <<>>]
        ELSE IF client_params.raised # "none"
        THEN [raised |-> client_params.raised, value |-> <<>>]
        ELSE [raised |-> "none",
              value |-> Tuple([k \in 1 .. n |->
                            [model |-> ClientTypeToModel(raw_client[1]),
                             params |-> client_params.value]])]

RECURSIVE all_client_runtimes(_)
all_client_runtimes(raw_clients) ==
    IF raw_clients = <<>> THEN [raised |-> "none", value |-> <<>>]
    ELSE LET first == client_runtimes_of(Head(raw_clients))
         IN  IF first.raised # "none" THEN first
             ELSE LET rest == all_client_runtimes(Tail(raw_clients))
                  IN  IF rest.raised # "none" THEN rest
                      ELSE [raised |-> "none", value |-> first.value \o rest.value]

\* get_cmd_line_parser: arguments["client_runtimes"] from --client-info
get_cmd_line_parser(client_info) == all_client_runtimes(Split(client_info, ","))

\* ------------------------------------------------- command lines to parse
\* a client token <type-code><params>[count]; count 0 stands for "no suffix"
TokenSpecs ==
    [type : {"i", "g"},
     params : {<<"0", ".", "0">>, <<"0", ".", "0", "/", "2", ".", "0">>, <<"1", ".", "5">>},
     count : {0, 1, 2, 10}]

RECURSIVE Decimal(_)
Decimal(n) ==
    IF n < 10 THEN <<DigitChars[n + 1]>>
    ELSE Decimal(n \div 10) \o <<DigitChars[(n % 10) + 1]>>

TokenText(tok) ==
    <<tok.type>> \o tok.params
        \o (IF tok.count = 0 THEN <<>> ELSE <<"[">> \o Decimal(tok.count) \o <<"]">>)

RECURSIVE Join(_)
Join(texts) ==
    IF Len(texts) = 1 THEN texts[1]
    ELSE texts[1] \o <<",">> \o Join(Tail(texts))

ClientInfoText(tokens) == Join([k \in 1 .. Len(tokens) |-> TokenText(tokens[k])])

\* before rate_tracker.py:28 has run: no arguments parsed, no tracker used
InitParser ==
    /\ num_clients = 0
    /\ client_update = EmptyDict
    /\ now = 0
    /\ arrivals = [id \in 0 .. (MaxClients - 1) |-> <<>>]
    /\ calls = 0
    /\ last = [op |-> "init"]

\* args = get_cmd_line_parser() on --client-info <tokens>, once at start-up;
\* num_clients = len(args["client_runtimes"])
ParseClientInfo ==
    /\ last.op = "init"
    /\ \E n \in 1 .. MaxTokens :
           \E tokens \in [1 .. n -> TokenSpecs] :
               \E out \in {get_cmd_line_parser(ClientInfoText(tokens))} :
                   /\ last' = [op |-> "get_cmd_line_parser", tokens |-> tokens,
                               client_info |-> ClientInfoText(tokens),
                               raised |-> out.raised,
                               client_runtimes |-> out.value]
                   /\ num_clients' = IF out.raised = "none" THEN Len(out.value)
                                     ELSE num_clients
                   /\ UNCHANGED <<client_update, now, arrivals, calls>>

NextParser == ParseClientInfo

SpecParser == InitParser /\ [][NextParser]_vars

\* ----------------------------------------------------------------- claims
IsAgg == last.op = "aggregation_func"

Min(a, b) == IF a <= b THEN a ELSE b

LastN(s, n) == SubSeq(s, Len(s) - n + 1, Len(s))

Newest(w) == CHOOSE x \in {w[i] : i \in 1 .. Len(w)} : \A i \in 1 .. Len(w) : w[i] <= x
Oldest(w) == CHOOSE x \in {w[i] : i \in 1 .. Len(w)} : \A i \in 1 .. Len(w) : x <= w[i]

\* every update carries, at every position of the global model, the global
\* parameter's name and shape, in old_params and in new_params
WellFormed(g, b) ==
    \A i \in 1 .. Len(b) : \A side \in {2, 3} :
        /\ Len(b[i][side]) = Len(g)
        /\ \A p \in 1 .. Len(g) :
              /\ b[i][side][p][1] = g[p][1]
              /\ Len(b[i][side][p][2]) = Len(g[p][2])

\* sum over updates i..n of weight_i * (new_i - old_i), element k of position p
RECURSIVE MergedDelta(_, _, _, _, _)
MergedDelta(b, weights, p, k, i) ==
    IF i > Len(b) THEN Zero
    ELSE RAdd(RMul(weights[i], RSub(b[i][3][p][2][k], b[i][2][p][2][k])),
              MergedDelta(b, weights, p, k, i + 1))

Expected(g, b, weights, p) ==
    [k \in 1 .. Len(g[p][2]) |-> RAdd(g[p][2][k], MergedDelta(b, weights, p, k, 1))]

SameTensor(a, b) == Len(a) = Len(b) /\ \A k \in 1 .. Len(a) : a[k] = b[k]

NonZeroDelta(b, p) ==
    \E i \in 1 .. Len(b) : b[i][3][p][2] # b[i][2][p][2]

RECURSIVE SumOfCounts(_)
SumOfCounts(tokens) ==
    IF tokens = <<>> THEN 0
    ELSE (IF Head(tokens).count = 0 THEN 1 ELSE Head(tokens).count)
             + SumOfCounts(Tail(tokens))

\* C1: after n track_update(id) calls the window of id is exactly the most
\* recent min(n, window_size) timestamps, in arrival order (the oldest entry
\* is the one evicted).
C1_WindowIsMostRecent ==
    \A id \in DOMAIN client_update :
        client_update[id]
            = LastN(arrivals[id], Min(Len(arrivals[id]), window_size))

\* C2: aggregation_func raises whenever some update's old_params or
\* new_params misses a position of the global state, or carries another
\* name or another shape there -- for every update of the batch.
C2_FailsFastOnAnyMismatch ==
    (IsAgg /\ last.client_updates # <<>>
       /\ ~WellFormed(last.global_model, last.client_updates))
        => last.raised # "none"

\* C3: aggregation_func on an empty batch does not raise and returns the
\* global parameter sequence unchanged.
C3_EmptyBatchIsNoOp ==
    (IsAgg /\ last.client_updates = <<>>)
        => (last.raised = "none" /\ last.result = last.global_model)

\* C4: a round that starts with get_rate_total() = 0 on a well-formed
\* non-empty batch raises nothing, gives every update weight 0 and returns
\* the prior global parameters at every position.
C4_ZeroRateTotalKeepsGlobal ==
    (IsAgg /\ last.client_updates # <<>>
       /\ WellFormed(last.global_model, last.client_updates)
       /\ last.rate_total = Ret(Zero))
        => /\ last.raised = "none"
           /\ Len(last.w.weights) = Len(last.client_updates)
           /\ \A i \in 1 .. Len(last.w.weights) : last.w.weights[i] = Zero
           /\ Len(last.result) = Len(last.global_model)
           /\ \A p \in 1 .. Len(last.global_model) :
                 /\ last.result[p][1] = last.global_model[p][1]
                 /\ SameTensor(last.result[p][2], last.global_model[p][2])

\* C4 witness: a later round (some reports are already recorded) that starts
\* with rate total 0, on two updates that changed a parameter outside the
\* normalization fields.
C4_Witness ==
    /\ IsAgg
    /\ last.rate_total = Ret(Zero)
    /\ last.raised = "none"
    /\ Len(last.client_updates) = 2
    /\ calls > 2
    /\ \E p \in 1 .. Len(last.global_model) :
          /\ ~Contains(<<"b", "n">>, last.global_model[p][1])
          /\ NonZeroDelta(last.client_updates, p)

\* C5: when the raw weights of a round sum to more than 0 the renormalized
\* weights sum to exactly 1; when they sum to 0 every weight is 0.
C5_WeightsSumToOne ==
    (IsAgg /\ last.w.computed)
        => /\ Len(last.w.weights) = Len(last.client_updates)
           /\ IF RPos(RSum(last.w.raw))
              THEN RSum(last.w.weights) = One
              ELSE \A i \in 1 .. Len(last.w.weights) : last.w.weights[i] = Zero

\* C5 witness: a batch that mixes an eligible and an ineligible worker.
C5_Witness ==
    /\ IsAgg
    /\ last.w.computed
    /\ \E i, j \in 1 .. Len(last.w.raw) :
          /\ RPos(last.w.raw[i])
          /\ last.w.raw[j] = Zero
          /\ last.w.weights[i] = One

C7_WindowBounded ==
    \A id \in DOMAIN client_update : Len(client_update[id]) <= window_size

\* C7 witness: a worker reported more than window_size times and its window
\* is full, as a get_rate_total call sees it.
C7_Witness ==
    /\ last.op = "get_rate_total"
    /\ \E id \in DOMAIN client_update :
          /\ Len(arrivals[id]) > window_size
          /\ Len(client_update[id]) = window_size

\* C8: a client-info token without a [count] suffix counts as 1 and a token
\* with [count] as count: get_cmd_line_parser raises nothing and the length
\* of client_runtimes is the sum of the (defaulted) counts.
C8_CountDefaultsToOne ==
    last.op = "get_cmd_line_parser"
        => /\ last.raised = "none"
           /\ Len(last.client_runtimes) = SumOfCounts(last.tokens)

\* C9: get_rate(id) returns 0.0 when id has fewer than 2 timestamps and
\* otherwise returns (number of retained timestamps) / (newest retained
\* timestamp - oldest retained timestamp).
C9_GetRateFormula ==
    last.op = "get_rate"
        => LET w == client_update[last.id]
           IN  IF Len(w) < 2 THEN last.ret = Ret(Zero)
               ELSE /\ last.ret.raised = "none"
                    /\ Newest(w) # Oldest(w)
                    /\ last.ret.value = Rat(Len(w), Newest(w) - Oldest(w))

\* C10: get_rate and get_rate_total never divide by zero: a worker with at
\* least 2 retained timestamps has newest # oldest, also when the clock
\* returns one value on consecutive track_update calls.
C10_NoDivisionByZero ==
    /\ \A id \in DOMAIN client_update :
          Len(client_update[id]) >= 2
              => client_update[id][Len(client_update[id])] # client_update[id][1]
    /\ last.op \in {"get_rate", "get_rate_total"}
           => last.ret.raised # "ZeroDivisionError"
    /\ IsAgg => last.raised # "ZeroDivisionError"

====
